---- MODULE Spec2Model ----
(***************************************************************************)
(* usbwhy: classification of kernel log lines (log_parser.py), correlation *)
(* of log entries with USB devices and heuristic analysis (analyzer.py).   *)
(* Texts are TLA+ strings handled character by character, so that the      *)
(* substring tests, the prefix stripping and the two regular expressions   *)
(* are computed as the Python code computes them.                          *)
(***************************************************************************)
EXTENDS Integers, Sequences, FiniteSets, TLC

VARIABLES
    pc,          \* position of the run under the specification at hand
    devices,     \* List[USBDevice] handed to the analyzer
    log_lines,   \* raw log lines handed to filter_usb_entries
    log_entries, \* List[LogEntry] handed to the analyzer
    device_logs, \* result of a match_logs_to_devices call
    analyses,    \* result of analyze_devices
    unmatched,   \* result of get_unmatched_logs
    entry,       \* one LogEntry object (classifier specification)
    analysis,    \* one DeviceAnalysis object (analysis specification)
    calls,       \* number of analyze() calls made on `analysis`
    sources,     \* locals of one parse_kernel_logs call, and the sources it ran
    cli          \* locals of one main() run of the command line

vars == <<pc, devices, log_lines, log_entries, device_logs, analyses,
          unmatched, entry, analysis, calls, sources, cli>>

(***************************************************************************)
(* Python values                                                           *)
(***************************************************************************)
\* Python's None for an Optional[str] field: a string no extraction yields.
None == "<None>"

\* Truthiness of an Optional[str]: neither None nor the empty string.
Truthy(s) == s # None /\ s # ""

(***************************************************************************)
(* str operations                                                          *)
(***************************************************************************)
Char(s, i) == SubSeq(s, i, i)

UpperLetters == <<"A","B","C","D","E","F","G","H","I","J","K","L","M",
                  "N","O","P","Q","R","S","T","U","V","W","X","Y","Z">>
LowerLetters == <<"a","b","c","d","e","f","g","h","i","j","k","l","m",
                  "n","o","p","q","r","s","t","u","v","w","x","y","z">>
Digits == {"0","1","2","3","4","5","6","7","8","9"}
Whitespace == {" ", "\t", "\n", "\r", "\f"}

LetterSet(t) == {t[i] : i \in 1..Len(t)}

\* the lower-case letter of each upper-case letter
LowerOf ==
    [c \in LetterSet(UpperLetters) |->
        LowerLetters[CHOOSE i \in 1..Len(UpperLetters) : UpperLetters[i] = c]]

LowerChar(c) == IF c \in DOMAIN LowerOf THEN LowerOf[c] ELSE c

\* str.lower()
RECURSIVE lower(_)
lower(s) ==
    IF Len(s) = 0 THEN ""
    ELSE LowerChar(Char(s, 1)) \o lower(SubSeq(s, 2, Len(s)))

\* positions at which `sub` occurs in s
Occurrences(sub, s) ==
    {i \in 1..(Len(s) - Len(sub) + 1) : SubSeq(s, i, i + Len(sub) - 1) = sub}

\* `sub in s`
In(sub, s) == Occurrences(sub, s) # {}

Min(S) == CHOOSE x \in S : \A y \in S : x <= y
Max(S) == CHOOSE x \in S : \A y \in S : x >= y

\* s.split(sep, 1)[1] when sep occurs in s: the text after its first occurrence
AfterFirst(sep, s) == SubSeq(s, Min(Occurrences(sep, s)) + Len(sep), Len(s))

\* s.rsplit(sep, 1)[1] when sep occurs in s: the text after its last occurrence
AfterLast(sep, s) == SubSeq(s, Max(Occurrences(sep, s)) + Len(sep), Len(s))

\* str.strip()
strip(s) ==
    LET keep == {i \in 1..Len(s) : Char(s, i) \notin Whitespace}
    IN  IF keep = {} THEN "" ELSE SubSeq(s, Min(keep), Max(keep))

(***************************************************************************)
(* Regular expressions of extract_device_info                              *)
(***************************************************************************)
IsDigit(c) == c \in Digits
IsSpace(c) == c \in Whitespace
WordChars  == Digits \cup LetterSet(UpperLetters)
                     \cup LetterSet(LowerLetters) \cup {"_"}
IsWord(c)  == c \in WordChars

\* the first position from i on that holds no digit
RECURSIVE DigitRunEnd(_, _)
DigitRunEnd(s, i) ==
    IF i <= Len(s) /\ IsDigit(Char(s, i)) THEN DigitRunEnd(s, i + 1) ELSE i

\* \d+ : positions reachable from a position of S by one or more digits
DigitsPlus(s, S) == UNION {(i + 1)..DigitRunEnd(s, i) : i \in S}

\* a literal character
Lit(s, S, c) == {i + 1 : i \in {k \in S : k <= Len(s) /\ Char(s, k) = c}}

\* (?:\.\d+)* : zero or more groups of a dot and digits
RECURSIVE DotGroups(_, _)
DotGroups(s, S) ==
    LET more == DigitsPlus(s, Lit(s, S, ".")) \ S
    IN  IF more = {} THEN S ELSE DotGroups(s, S \cup more)

\* positions just after a match of \d+-\d+(?:\.\d+)* that begins at p
PathEnds(s, p) == DotGroups(s, DigitsPlus(s, Lit(s, DigitsPlus(s, {p}), "-")))

\* ends of group 1 for which the following [\s:] matches too
PathMatchEnds(s, p) ==
    {j \in PathEnds(s, p) :
        j <= Len(s) /\ (IsSpace(Char(s, j)) \/ Char(s, j) = ":")}

\* (?:usb\s+)? with re.IGNORECASE: where group 1 may begin for a match that
\* begins at i: after "usb" and whitespace, or at i itself
PathStarts(s, i) ==
    LET afterUsb ==
            IF i + 2 <= Len(s) /\ lower(SubSeq(s, i, i + 2)) = "usb"
            THEN {p \in (i + 4)..(Len(s) + 1) :
                     \A k \in (i + 3)..(p - 1) : IsSpace(Char(s, k))}
            ELSE {}
    IN  afterUsb \cup {i}

BusPathMatchesAt(s, i) == \E p \in PathStarts(s, i) : PathMatchEnds(s, p) # {}

\* re.search(r'(?:usb\s+)?(\d+-\d+(?:\.\d+)*)[\s:]', s, re.IGNORECASE):
\* group(1) of the leftmost match, quantifiers greedy; None without a match
BusPathSearch(s) ==
    LET starts == {k \in 1..Len(s) : BusPathMatchesAt(s, k)}
    IN  IF starts = {} THEN None
        ELSE LET i == Min(starts)
                 p == Min({q \in PathStarts(s, i) : PathMatchEnds(s, q) # {}})
             IN  SubSeq(s, p, Max(PathMatchEnds(s, p)) - 1)

WordRun(s, i, n) ==
    i >= 1 /\ i + n - 1 <= Len(s) /\ \A k \in i..(i + n - 1) : IsWord(Char(s, k))

VendorProductMatchesAt(s, i) ==
    WordRun(s, i, 4) /\ i + 4 <= Len(s) /\ Char(s, i + 4) = ":"
                     /\ WordRun(s, i + 5, 4)

\* re.search(r'(\w{4}):(\w{4})', s): f"{match.group(1)}:{match.group(2)}" of
\* the leftmost match; None without a match
VendorProductSearch(s) ==
    LET starts == {k \in 1..Len(s) : VendorProductMatchesAt(s, k)}
    IN  IF starts = {} THEN None
        ELSE LET i == Min(starts)
             IN  SubSeq(s, i, i + 3) \o ":" \o SubSeq(s, i + 5, i + 8)

(***************************************************************************)
(* LogEntry (log_parser.py)                                                *)
(***************************************************************************)
\* _categorize with the reset and disconnect rules tried before over-current
categorize_reset_first(message) ==
    LET msg_lower == lower(message)
    IN  IF In("reset", msg_lower) /\ In("usb", msg_lower)
            THEN "reset"
        ELSE IF In("disconnect", msg_lower) /\ In("usb", msg_lower)
            THEN "disconnect"
        ELSE IF In("over-current", msg_lower) \/ In("overcurrent", msg_lower)
            THEN "over_current"
        ELSE IF In("error", msg_lower) \/ In("failed", msg_lower)
            THEN "error"
        ELSE IF In("timeout", msg_lower)
            THEN "timeout"
        ELSE IF In("descriptor read", msg_lower)
            THEN "descriptor_error"
        ELSE IF In("cannot enumerate", msg_lower)
                \/ In("enumeration failed", msg_lower)
            THEN "enumeration_error"
        ELSE IF In("warning", msg_lower) \/ In("warn", msg_lower)
            THEN "warning"
        ELSE "info"

\* _categorize with the last test written `"warning" in msg_lower or "warn"`
categorize_warn_always(message) ==
    LET msg_lower == lower(message)
    IN  IF In("over-current", msg_lower) \/ In("overcurrent", msg_lower)
            THEN "over_current"
        ELSE IF In("reset", msg_lower) /\ In("usb", msg_lower)
            THEN "reset"
        ELSE IF In("disconnect", msg_lower) /\ In("usb", msg_lower)
            THEN "disconnect"
        ELSE IF In("error", msg_lower) \/ In("failed", msg_lower)
            THEN "error"
        ELSE IF In("timeout", msg_lower)
            THEN "timeout"
        ELSE IF In("descriptor read", msg_lower)
            THEN "descriptor_error"
        ELSE IF In("cannot enumerate", msg_lower)
                \/ In("enumeration failed", msg_lower)
            THEN "enumeration_error"
        ELSE IF In("warning", msg_lower) \/ Truthy("warn")
            THEN "warning"
        ELSE "info"

\* _categorize with the enumeration test ahead of the error test
categorize_enumeration_first(message) ==
    LET msg_lower == lower(message)
    IN  IF In("over-current", msg_lower) \/ In("overcurrent", msg_lower)
            THEN "over_current"
        ELSE IF In("reset", msg_lower) /\ In("usb", msg_lower)
            THEN "reset"
        ELSE IF In("disconnect", msg_lower) /\ In("usb", msg_lower)
            THEN "disconnect"
        ELSE IF In("cannot enumerate", msg_lower)
                \/ In("enumeration failed", msg_lower)
            THEN "enumeration_error"
        ELSE IF In("error", msg_lower) \/ In("failed", msg_lower)
            THEN "error"
        ELSE IF In("timeout", msg_lower)
            THEN "timeout"
        ELSE IF In("descriptor read", msg_lower)
            THEN "descriptor_error"
        ELSE IF In("warning", msg_lower) \/ In("warn", msg_lower)
            THEN "warning"
        ELSE "info"

\* LogEntry._categorize: the category for a message, first matching rule
_categorize(message) ==
    LET msg_lower == lower(message)
    IN  IF In("over-current", msg_lower) \/ In("overcurrent", msg_lower)
            THEN "over_current"
        ELSE IF In("reset", msg_lower) /\ In("usb", msg_lower)
            THEN "reset"
        ELSE IF In("disconnect", msg_lower) /\ In("usb", msg_lower)
            THEN "disconnect"
        ELSE IF In("error", msg_lower) \/ In("failed", msg_lower)
            THEN "error"
        ELSE IF In("timeout", msg_lower)
            THEN "timeout"
        ELSE IF In("descriptor read", msg_lower)
            THEN "descriptor_error"
        ELSE IF In("cannot enumerate", msg_lower)
                \/ In("enumeration failed", msg_lower)
            THEN "enumeration_error"
        ELSE IF In("warning", msg_lower) \/ In("warn", msg_lower)
            THEN "warning"
        ELSE "info"

\* LogEntry.__init__; oid stands for the identity of the new object (LogEntry
\* defines neither __eq__ nor __hash__, so sets and `in` compare identities)
LogEntry(oid, message, timestamp, raw_line) ==
    [oid            |-> oid,
     message        |-> message,
     timestamp      |-> timestamp,
     raw_line       |-> raw_line,
     device_id      |-> None,
     vendor_product |-> None,
     category       |-> _categorize(message)]

\* extract_device_info with the vendor:product search ahead of the bus-path
\* search
extract_device_info_bus_path_last(e) ==
    LET bus   == BusPathSearch(e.message)
        vp    == VendorProductSearch(e.message)
        found == IF vp # None
                 THEN [e EXCEPT !.device_id = None, !.vendor_product = vp]
                 ELSE e
    IN  IF bus # None THEN [found EXCEPT !.device_id = bus] ELSE found

\* extract_device_info without `self.device_id = None`
extract_device_info_keeps_id(e) ==
    LET bus   == BusPathSearch(e.message)
        vp    == VendorProductSearch(e.message)
        found == IF bus # None THEN [e EXCEPT !.device_id = bus] ELSE e
    IN  IF vp # None THEN [found EXCEPT !.vendor_product = vp] ELSE found

\* LogEntry.extract_device_info: the entry after the call
extract_device_info(e) ==
    LET bus   == BusPathSearch(e.message)
        vp    == VendorProductSearch(e.message)
        found == IF bus # None THEN [e EXCEPT !.device_id = bus] ELSE e
    IN  IF vp # None
        THEN [found EXCEPT !.device_id = None, !.vendor_product = vp]
        ELSE found

\* parse_timestamp: every path returns None
parse_timestamp(line) == None

usb_keywords ==
    <<"usb", "over-current", "overcurrent", "reset", "disconnect",
      "descriptor read", "cannot enumerate", "enumeration failed", "timeout">>

\* the prefix stripping of filter_usb_entries
StripPrefix(line) ==
    IF In("] ", line) THEN AfterFirst("] ", line)
    ELSE IF In(": ", line) THEN AfterLast(": ", line)
    ELSE line

\* filter_usb_entries: entries built so far are `entries`, lines[k..] remain
RECURSIVE FilterFrom(_, _, _)
FilterFrom(lines, k, entries) ==
    IF k > Len(lines) THEN entries
    ELSE LET line == lines[k]
             line_lower == lower(line)
         IN  IF \E n \in 1..Len(usb_keywords) : In(usb_keywords[n], line_lower)
             THEN FilterFrom(lines, k + 1,
                      Append(entries,
                          extract_device_info(
                              LogEntry(Len(entries) + 1,
                                       strip(StripPrefix(line)),
                                       parse_timestamp(line), line))))
             ELSE FilterFrom(lines, k + 1, entries)

filter_usb_entries(lines) == FilterFrom(lines, 1, <<>>)

(***************************************************************************)
(* USBDevice (device_enum.py); only the fields the analyzer reads          *)
(***************************************************************************)
\* USBDevice objects, like LogEntry objects, are compared and hashed by
\* identity: oid stands for the identity of the object
USBDevice(oid, device_id, vendor_id, product_id, device_class, driver) ==
    [oid          |-> oid,
     device_id    |-> device_id,
     vendor_id    |-> vendor_id,
     product_id   |-> product_id,
     device_class |-> device_class,
     driver       |-> driver]

get_id_vendor_product(d) ==
    IF Truthy(d.vendor_id) /\ Truthy(d.product_id)
    THEN d.vendor_id \o ":" \o d.product_id
    ELSE None

\* `a is b`, which is also a == b and equality of hashes for both classes
SameObject(a, b) == a.oid = b.oid

(***************************************************************************)
(* DeviceAnalysis (analyzer.py)                                            *)
(***************************************************************************)
\* DeviceAnalysis.__init__
DeviceAnalysis(device) ==
    [device                  |-> device,
     log_entries             |-> <<>>,
     issues                  |-> <<>>,
     reset_count             |-> 0,
     disconnect_count        |-> 0,
     error_count             |-> 0,
     warning_count           |-> 0,
     over_current_count      |-> 0,
     timeout_count           |-> 0,
     descriptor_error_count  |-> 0,
     enumeration_error_count |-> 0]

\* add_log_entry with the warning branch counting into error_count
add_log_entry_warning_as_error(a, e) ==
    LET b == [a EXCEPT !.log_entries = Append(@, e)]
    IN  IF e.category = "reset"
            THEN [b EXCEPT !.reset_count = @ + 1]
        ELSE IF e.category = "disconnect"
            THEN [b EXCEPT !.disconnect_count = @ + 1]
        ELSE IF e.category \in {"error", "warning"}
            THEN [b EXCEPT !.error_count = @ + 1]
        ELSE IF e.category = "over_current"
            THEN [b EXCEPT !.over_current_count = @ + 1]
        ELSE IF e.category = "timeout"
            THEN [b EXCEPT !.timeout_count = @ + 1]
        ELSE IF e.category = "descriptor_error"
            THEN [b EXCEPT !.descriptor_error_count = @ + 1]
        ELSE IF e.category = "enumeration_error"
            THEN [b EXCEPT !.enumeration_error_count = @ + 1]
        ELSE b

\* DeviceAnalysis.add_log_entry: the analysis after the call
add_log_entry(a, e) ==
    LET b == [a EXCEPT !.log_entries = Append(@, e)]
    IN  IF e.category = "reset"
            THEN [b EXCEPT !.reset_count = @ + 1]
        ELSE IF e.category = "disconnect"
            THEN [b EXCEPT !.disconnect_count = @ + 1]
        ELSE IF e.category = "error"
            THEN [b EXCEPT !.error_count = @ + 1]
        ELSE IF e.category = "warning"
            THEN [b EXCEPT !.warning_count = @ + 1]
        ELSE IF e.category = "over_current"
            THEN [b EXCEPT !.over_current_count = @ + 1]
        ELSE IF e.category = "timeout"
            THEN [b EXCEPT !.timeout_count = @ + 1]
        ELSE IF e.category = "descriptor_error"
            THEN [b EXCEPT !.descriptor_error_count = @ + 1]
        ELSE IF e.category = "enumeration_error"
            THEN [b EXCEPT !.enumeration_error_count = @ + 1]
        ELSE b

FrequentIssue(n) ==
    "Frequent resets/reconnects (" \o ToString(n) \o " occurrences) - "
    \o "possible cable, port, or power problem"
MultipleResetsIssue(n) ==
    "Multiple resets/reconnects (" \o ToString(n) \o " occurrences) - "
    \o "check cable and port connection"
OverCurrentIssue(n) ==
    "Over-current detected (" \o ToString(n) \o " times) - "
    \o "device may be drawing too much power or hub has power issue"
DescriptorIssue(n) ==
    "Device descriptor read errors (" \o ToString(n) \o " times) - "
    \o "possible hardware connection problem"
EnumerationIssue(n) ==
    "Enumeration failed (" \o ToString(n) \o " times) - "
    \o "device may not be responding properly"
TimeoutIssue(n) ==
    "USB timeouts (" \o ToString(n) \o " times) - "
    \o "device may be slow or unresponsive"
UnknownClassIssue == "Unknown device class - driver may not be available"
NoDriverIssue(device_class) ==
    "No driver bound - device class " \o device_class \o " "
    \o "may not have a matching kernel module"
MultipleErrorsIssue(n) ==
    "Multiple errors detected (" \o ToString(n) \o " times) - "
    \o "device may be malfunctioning"

\* NewIssues with the second reset tier tested by if, not elif
NewIssues_second_tier_not_elif(a) ==
    LET total_resets == a.reset_count + a.disconnect_count
    IN  (IF total_resets >= 5 THEN <<FrequentIssue(total_resets)>> ELSE <<>>)
     \o (IF total_resets >= 3 THEN <<MultipleResetsIssue(total_resets)>>
         ELSE <<>>)
     \o (IF a.over_current_count > 0
         THEN <<OverCurrentIssue(a.over_current_count)>> ELSE <<>>)
     \o (IF a.descriptor_error_count > 0
         THEN <<DescriptorIssue(a.descriptor_error_count)>> ELSE <<>>)
     \o (IF a.enumeration_error_count > 0
         THEN <<EnumerationIssue(a.enumeration_error_count)>> ELSE <<>>)
     \o (IF a.timeout_count > 0
         THEN <<TimeoutIssue(a.timeout_count)>> ELSE <<>>)
     \o (IF a.device.driver = None /\ Truthy(a.device.device_class)
         THEN IF a.device.device_class \in {"00", "0", "ff"}
              THEN <<UnknownClassIssue>>
              ELSE <<NoDriverIssue(a.device.device_class)>>
         ELSE <<>>)
     \o (IF a.error_count >= 3
         THEN <<MultipleErrorsIssue(a.error_count)>> ELSE <<>>)

\* NewIssues with the general-errors check ahead of the driver check
NewIssues_errors_before_driver(a) ==
    LET total_resets == a.reset_count + a.disconnect_count
    IN  (IF total_resets >= 5 THEN <<FrequentIssue(total_resets)>>
         ELSE IF total_resets >= 3 THEN <<MultipleResetsIssue(total_resets)>>
         ELSE <<>>)
     \o (IF a.over_current_count > 0
         THEN <<OverCurrentIssue(a.over_current_count)>> ELSE <<>>)
     \o (IF a.descriptor_error_count > 0
         THEN <<DescriptorIssue(a.descriptor_error_count)>> ELSE <<>>)
     \o (IF a.enumeration_error_count > 0
         THEN <<EnumerationIssue(a.enumeration_error_count)>> ELSE <<>>)
     \o (IF a.timeout_count > 0
         THEN <<TimeoutIssue(a.timeout_count)>> ELSE <<>>)
     \o (IF a.error_count >= 3
         THEN <<MultipleErrorsIssue(a.error_count)>> ELSE <<>>)
     \o (IF a.device.driver = None /\ Truthy(a.device.device_class)
         THEN IF a.device.device_class \in {"00", "0", "ff"}
              THEN <<UnknownClassIssue>>
              ELSE <<NoDriverIssue(a.device.device_class)>>
         ELSE <<>>)

\* NewIssues with the driver check not looking at the bound driver
NewIssues_ignores_driver(a) ==
    LET total_resets == a.reset_count + a.disconnect_count
    IN  (IF total_resets >= 5 THEN <<FrequentIssue(total_resets)>>
         ELSE IF total_resets >= 3 THEN <<MultipleResetsIssue(total_resets)>>
         ELSE <<>>)
     \o (IF a.over_current_count > 0
         THEN <<OverCurrentIssue(a.over_current_count)>> ELSE <<>>)
     \o (IF a.descriptor_error_count > 0
         THEN <<DescriptorIssue(a.descriptor_error_count)>> ELSE <<>>)
     \o (IF a.enumeration_error_count > 0
         THEN <<EnumerationIssue(a.enumeration_error_count)>> ELSE <<>>)
     \o (IF a.timeout_count > 0
         THEN <<TimeoutIssue(a.timeout_count)>> ELSE <<>>)
     \o (IF Truthy(a.device.device_class)
         THEN IF a.device.device_class \in {"00", "0", "ff"}
              THEN <<UnknownClassIssue>>
              ELSE <<NoDriverIssue(a.device.device_class)>>
         ELSE <<>>)
     \o (IF a.error_count >= 3
         THEN <<MultipleErrorsIssue(a.error_count)>> ELSE <<>>)

\* the issues one analyze() call appends, in the order of its checks
NewIssues(a) ==
    LET total_resets == a.reset_count + a.disconnect_count
    IN  (IF total_resets >= 5 THEN <<FrequentIssue(total_resets)>>
         ELSE IF total_resets >= 3 THEN <<MultipleResetsIssue(total_resets)>>
         ELSE <<>>)
     \o (IF a.over_current_count > 0
         THEN <<OverCurrentIssue(a.over_current_count)>> ELSE <<>>)
     \o (IF a.descriptor_error_count > 0
         THEN <<DescriptorIssue(a.descriptor_error_count)>> ELSE <<>>)
     \o (IF a.enumeration_error_count > 0
         THEN <<EnumerationIssue(a.enumeration_error_count)>> ELSE <<>>)
     \o (IF a.timeout_count > 0
         THEN <<TimeoutIssue(a.timeout_count)>> ELSE <<>>)
     \o (IF a.device.driver = None /\ Truthy(a.device.device_class)
         THEN IF a.device.device_class \in {"00", "0", "ff"}
              THEN <<UnknownClassIssue>>
              ELSE <<NoDriverIssue(a.device.device_class)>>
         ELSE <<>>)
     \o (IF a.error_count >= 3
         THEN <<MultipleErrorsIssue(a.error_count)>> ELSE <<>>)

\* DeviceAnalysis.analyze: the analysis after the call (self.issues.append)
analyze(a) == [a EXCEPT !.issues = @ \o NewIssues(a)]

(***************************************************************************)
(* Correlation and orchestration (analyzer.py)                             *)
(***************************************************************************)
\* A Dict[USBDevice, List[LogEntry]] is the sequence of its items in key
\* insertion order, each [device, entries].
HasKey(dl, d) == \E k \in 1..Len(dl) : SameObject(dl[k].device, d)

\* device_logs.get(device, [])
GetLogs(dl, d) ==
    IF HasKey(dl, d)
    THEN dl[CHOOSE k \in 1..Len(dl) : SameObject(dl[k].device, d)].entries
    ELSE <<>>

\* device_logs[device].append(entry) after writing the device's id into the
\* entry
AppendLog_sets_device_id(dl, d, e) ==
    LET marked == [e EXCEPT !.device_id = d.device_id]
    IN  IF HasKey(dl, d)
        THEN [k \in 1..Len(dl) |->
                 IF SameObject(dl[k].device, d)
                 THEN [dl[k] EXCEPT !.entries = Append(@, marked)]
                 ELSE dl[k]]
        ELSE Append(dl, [device |-> d, entries |-> <<marked>>])

\* device_logs[device].insert(0, entry)
AppendLog_at_front(dl, d, e) ==
    IF HasKey(dl, d)
    THEN [k \in 1..Len(dl) |->
             IF SameObject(dl[k].device, d)
             THEN [dl[k] EXCEPT !.entries = <<e>> \o @]
             ELSE dl[k]]
    ELSE Append(dl, [device |-> d, entries |-> <<e>>])

\* device_logs[device].append(entry) on a defaultdict(list)
AppendLog(dl, d, e) ==
    IF HasKey(dl, d)
    THEN [k \in 1..Len(dl) |->
             IF SameObject(dl[k].device, d)
             THEN [dl[k] EXCEPT !.entries = Append(@, e)]
             ELSE dl[k]]
    ELSE Append(dl, [device |-> d, entries |-> <<e>>])

\* devices_by_id: a later device replaces an earlier one with the same id
InDevicesById(devs, id) ==
    \E k \in 1..Len(devs) : Truthy(devs[k].device_id) /\ devs[k].device_id = id

DevicesById(devs, id) ==
    devs[Max({k \in 1..Len(devs) :
                 Truthy(devs[k].device_id) /\ devs[k].device_id = id})]

\* devices_by_vp[vp]: the devices of that vendor:product, in list order
HasVp(d, vp) == get_id_vendor_product(d) # None /\ get_id_vendor_product(d) = vp

DevicesByVp(devs, vp) == SelectSeq(devs, LAMBDA d : HasVp(d, vp))

InDevicesByVp(devs, vp) == Len(DevicesByVp(devs, vp)) > 0

\* the vendor:product loop stopping after the first device of the key
AppendLogFirst(dl, targets, k, e) ==
    IF k > Len(targets) THEN dl ELSE AppendLog(dl, targets[k], e)

\* for device in devices_by_vp[entry.vendor_product]: device_logs[device].append(entry)
RECURSIVE AppendLogAll(_, _, _, _)
AppendLogAll(dl, targets, k, e) ==
    IF k > Len(targets) THEN dl
    ELSE AppendLogAll(AppendLog(dl, targets[k], e), targets, k + 1, e)

\* the loop body without the `not matched` test
MatchEntryBoth(devs, dl, e) ==
    LET byId == Truthy(e.device_id) /\ InDevicesById(devs, e.device_id)
        dl1  == IF byId THEN AppendLog(dl, DevicesById(devs, e.device_id), e)
                ELSE dl
    IN  IF Truthy(e.vendor_product) /\ InDevicesByVp(devs, e.vendor_product)
        THEN AppendLogAll(dl1, DevicesByVp(devs, e.vendor_product), 1, e)
        ELSE dl1

\* the loop body with a last resort: an entry that matched by neither key goes
\* to the devices whose device_id occurs in its raw line
MatchEntry_by_raw_line(devs, dl, e) ==
    LET byId == Truthy(e.device_id) /\ InDevicesById(devs, e.device_id)
        byVp == ~byId /\ Truthy(e.vendor_product)
                      /\ InDevicesByVp(devs, e.vendor_product)
        dl1  == IF byId THEN AppendLog(dl, DevicesById(devs, e.device_id), e)
                ELSE dl
        named == SelectSeq(devs, LAMBDA d : /\ Truthy(d.device_id)
                                            /\ In(d.device_id, e.raw_line))
    IN  IF byVp
        THEN AppendLogAll(dl1, DevicesByVp(devs, e.vendor_product), 1, e)
        ELSE IF ~byId THEN AppendLogAll(dl1, named, 1, e)
        ELSE dl1

\* one iteration of the loop over log_entries
MatchEntry(devs, dl, e) ==
    LET byId == Truthy(e.device_id) /\ InDevicesById(devs, e.device_id)
        dl1  == IF byId THEN AppendLog(dl, DevicesById(devs, e.device_id), e)
                ELSE dl
    IN  IF ~byId /\ Truthy(e.vendor_product)
                 /\ InDevicesByVp(devs, e.vendor_product)
        THEN AppendLogAll(dl1, DevicesByVp(devs, e.vendor_product), 1, e)
        ELSE dl1

RECURSIVE MatchFrom(_, _, _, _)
MatchFrom(devs, entries, k, dl) ==
    IF k > Len(entries) THEN dl
    ELSE MatchFrom(devs, entries, k + 1, MatchEntry(devs, dl, entries[k]))

match_logs_to_devices(devs, entries) == MatchFrom(devs, entries, 1, <<>>)

\* analysis = DeviceAnalysis(device); add_log_entry for each entry; analyze()
RECURSIVE AddAll(_, _, _)
AddAll(a, entries, k) ==
    IF k > Len(entries) THEN a
    ELSE AddAll(add_log_entry(a, entries[k]), entries, k + 1)

AnalysisOf(d, entries) == analyze(AddAll(DeviceAnalysis(d), entries, 1))

\* `device in devices` for a list: some element is (equal to) the object
InList(devs, d) == \E k \in 1..Len(devs) : SameObject(devs[k], d)

\* analyze_devices building analyses from the items of device_logs only
analyze_devices_with_logs(devs, entries) ==
    LET dl == match_logs_to_devices(devs, entries)
    IN  [k \in 1..Len(dl) |-> AnalysisOf(dl[k].device, dl[k].entries)]

analyze_devices(devs, entries) ==
    LET dl     == match_logs_to_devices(devs, entries)
        listed == [k \in 1..Len(devs) |->
                      AnalysisOf(devs[k], GetLogs(dl, devs[k]))]
        ghosts == SelectSeq(dl, LAMBDA item : ~InList(devs, item.device))
    IN  listed \o [k \in 1..Len(ghosts) |->
                      AnalysisOf(ghosts[k].device, ghosts[k].entries)]

\* get_unmatched_logs with matched_entries = set(entries) in place of update
get_unmatched_logs_last_value(devs, entries) ==
    LET dl == match_logs_to_devices(devs, entries)
        matched_entries ==
            IF Len(dl) = 0 THEN {}
            ELSE {dl[Len(dl)].entries[n].oid : n \in 1..Len(dl[Len(dl)].entries)}
    IN  SelectSeq(entries, LAMBDA e : e.oid \notin matched_entries)

get_unmatched_logs(devs, entries) ==
    LET dl == match_logs_to_devices(devs, entries)
        matched_entries ==
            UNION {{dl[k].entries[n].oid : n \in 1..Len(dl[k].entries)} :
                      k \in 1..Len(dl)}
    IN  SelectSeq(entries, LAMBDA e : e.oid \notin matched_entries)

(***************************************************************************)
(* Log sources (log_parser.py)                                             *)
(***************************************************************************)
\* str.splitlines of a text whose only line breaks are "\n", from `from` on
RECURSIVE SplitLinesFrom(_, _)
SplitLinesFrom(s, from) ==
    IF from > Len(s) THEN <<>>
    ELSE LET breaks == {i \in from..Len(s) : Char(s, i) = "\n"}
         IN  IF breaks = {} THEN <<SubSeq(s, from, Len(s))>>
             ELSE <<SubSeq(s, from, Min(breaks) - 1)>>
                  \o SplitLinesFrom(s, Min(breaks) + 1)

splitlines(s) == SplitLinesFrom(s, 1)

\* "\n".join(parts)
RECURSIVE join(_)
join(parts) ==
    IF parts = <<>> THEN ""
    ELSE IF Len(parts) = 1 THEN parts[1]
    ELSE parts[1] \o "\n" \o join(Tail(parts))

\* text_lines[-n:], n > 0
LastLines(text_lines, n) ==
    SubSeq(text_lines, Max({1, Len(text_lines) - n + 1}), Len(text_lines))

\* what subprocess.run does: kind "ok" is returncode 0, "nonzero" another
\* returncode, "raise" one of the exceptions the callers catch
\* parse_journalctl, given what its subprocess.run did
parse_journalctl(result) ==
    IF result.kind = "ok" THEN result.stdout ELSE None

\* parse_dmesg, given what `dmesg -T` did and what plain `dmesg` does; lines
\* is 0 for None
parse_dmesg(lines, first, second) ==
    IF first.kind = "ok"
    THEN IF lines # 0 THEN join(LastLines(splitlines(first.stdout), lines))
         ELSE first.stdout
    ELSE IF first.kind = "raise"
    THEN IF second.kind = "ok" THEN second.stdout ELSE None
    ELSE None

\* parse_log_file, given the file: kind "missing", "unreadable" (open or read
\* raises) or "read"
parse_log_file(file, lines) ==
    IF file.kind = "read"
    THEN IF lines # 0 THEN join(LastLines(splitlines(file.content), lines))
         ELSE file.content
    ELSE None

log_files == <<"/var/log/kern.log", "/var/log/messages", "/var/log/syslog">>

\* `if log_output is None` in the place of `if not log_output`
not_log_output_is_None(log_output) == log_output = None

\* `not log_output`: None and the empty text alike
not_log_output(log_output) == ~Truthy(log_output)

(***************************************************************************)
(* Command line (cli.py)                                                   *)
(***************************************************************************)
Base16Digits == Digits \cup {"a","b","c","d","e","f","A","B","C","D","E","F"}

\* int(s, 16) raises no ValueError, for an s without sign, "0x" prefix,
\* underscore or blank
Base16Parses(s) == Len(s) > 0 /\ \A i \in 1..Len(s) : Char(s, i) \in Base16Digits

\* parse_device_filter: the pair (device_id, vendor_product)
parse_device_filter(device_arg) ==
    LET colons == Occurrences(":", device_arg)
        first  == SubSeq(device_arg, 1, Min(colons) - 1)
        second == SubSeq(device_arg, Min(colons) + 1, Len(device_arg))
    IN  IF ~Truthy(device_arg)
        THEN [device_id |-> None, vendor_product |-> None]
        ELSE IF /\ Cardinality(colons) = 1
                /\ Len(first) = 4 /\ Len(second) = 4
                /\ Base16Parses(first) /\ Base16Parses(second)
        THEN [device_id |-> None, vendor_product |-> lower(device_arg)]
        ELSE IF In("-", device_arg)
        THEN [device_id |-> device_arg, vendor_product |-> None]
        ELSE [device_id |-> None, vendor_product |-> None]

\* filter_devices
filter_devices(devs, device_id_filter, vendor_product_filter) ==
    IF ~Truthy(device_id_filter) /\ ~Truthy(vendor_product_filter) THEN devs
    ELSE SelectSeq(devs, LAMBDA d :
             IF Truthy(device_id_filter) /\ d.device_id = device_id_filter
             THEN TRUE
             ELSE /\ Truthy(vendor_product_filter)
                  /\ Truthy(get_id_vendor_product(d))
                  /\ lower(get_id_vendor_product(d)) = vendor_product_filter)

\* the literal main prints for --json when there is nothing to report
EmptyJsonReport ==
    "{\"devices\": [], \"unmatched_logs\": [], \"summary\": "
    \o "{\"total_devices\": 0, \"devices_with_issues\": 0}}"

(***************************************************************************)
(* Inputs                                                                  *)
(***************************************************************************)
MaxLines       == 4   \* raw log lines of one run
MaxRunDevices  == 1   \* enumerated devices of one run
MaxDevices     == 2   \* devices handed to the correlator
MaxEntries     == 3   \* entries handed to the correlator
MaxAdds        == 3   \* add_log_entry calls on one DeviceAnalysis
MaxAnalyze     == 2   \* analyze calls on one DeviceAnalysis
MaxRuleEntries == 5   \* entries matched to the one device of SpecRules

RECURSIVE SeqsUpTo(_, _)
SeqsUpTo(S, n) ==
    IF n = 0 THEN {<<>>}
    ELSE LET shorter == SeqsUpTo(S, n - 1)
         IN  shorter \cup {Append(s, x) : s \in {q \in shorter : Len(q) = n - 1},
                                          x \in S}

\* the objects of a list are distinct: the k-th has identity k
Numbered(s) == [k \in 1..Len(s) |-> [s[k] EXCEPT !.oid = k]]

\* what enumerate_from_sysfs reads for one device directory: a device has a
\* vendor or a product id, and its device_id is the directory name
EndToEndDevice == USBDevice(0, "1-1.2", "1234", "5678", "ff", None)

DevicePool ==
    {EndToEndDevice,
     USBDevice(0, "2-1",   "1234", "5678", "03", "usbhid"),
     USBDevice(0, "3-2",   "046d", None,   None, None),
     USBDevice(0, "1-1.2", "046d", "c077", "03", None)}

\* device lists hold distinct objects with distinct device_ids, directory
\* names being distinct
DeviceListsOf(pool, n) ==
    {Numbered(s) :
        s \in {q \in SeqsUpTo(pool, n) :
                  \A i, j \in 1..Len(q) :
                      q[i].device_id = q[j].device_id => i = j}}

\* raw kernel log lines as journalctl and dmesg print them
ResetLine       == "usb 1-1.2: reset"
OverCurrentLine == "usb 1-1.2: over-current detected"

LogVocabulary ==
    {ResetLine,
     OverCurrentLine,
     "[1] usb 1-1.2: USB disconnect",
     "[2] usb 2-1: 046d:c077 error",
     "eth0: link up"}

RunDevicePool ==
    {EndToEndDevice, USBDevice(0, "2-1", "046d", "c077", "03", "usbhid")}

NoEntry    == [oid |-> 0]
NoAnalysis == [device |-> [oid |-> 0]]
NoSources  == [log_output |-> None]
NoCli      == [exit_status |-> None]

(***************************************************************************)
(* Spec: one run of the diagnosis on raw log lines, in the order in which  *)
(* cli.main calls the three functions                                      *)
(***************************************************************************)
Init ==
    /\ pc = "start"
    /\ devices \in DeviceListsOf(RunDevicePool, MaxRunDevices)
    /\ log_lines \in SeqsUpTo(LogVocabulary, MaxLines)
    /\ log_entries = <<>>
    /\ device_logs = <<>>
    /\ analyses = <<>>
    /\ unmatched = <<>>
    /\ entry = NoEntry
    /\ analysis = NoAnalysis
    /\ calls = 0
    /\ sources = NoSources
    /\ cli = NoCli

FilterUsbEntries ==
    /\ pc = "start"
    /\ log_entries' = filter_usb_entries(log_lines)
    /\ pc' = "entries"
    /\ UNCHANGED <<devices, log_lines, device_logs, analyses, unmatched,
                   entry, analysis, calls,
                   sources, cli>>

AnalyzeDevices ==
    /\ pc = "entries"
    /\ analyses' = analyze_devices(devices, log_entries)
    /\ pc' = "analyzed"
    /\ UNCHANGED <<devices, log_lines, log_entries, device_logs, unmatched,
                   entry, analysis, calls,
                   sources, cli>>

GetUnmatchedLogs ==
    /\ pc = "analyzed"
    /\ unmatched' = get_unmatched_logs(devices, log_entries)
    /\ pc' = "done"
    /\ UNCHANGED <<devices, log_lines, log_entries, device_logs, analyses,
                   entry, analysis, calls,
                   sources, cli>>

Next == FilterUsbEntries \/ AnalyzeDevices \/ GetUnmatchedLogs

Spec == Init /\ [][Next]_vars

(***************************************************************************)
(* SpecClassify: one LogEntry object, constructed from a message and then  *)
(* given its identifiers                                                   *)
(***************************************************************************)
Prefixes == {"", "[1] ", "kernel: "}
Subjects == {"", "usb 1-1.2: ", "USB 2-1 ", "hub 1-0:1.0: "}
Bodies   == {"", "reset", "Reset", "over-current", "overcurrent", "disconnect",
             "error", "failed", "timeout", "descriptor read",
             "cannot enumerate", "enumeration failed", "warning", "warn",
             "link up"}
Suffixes == {"", " 1234:5678", " reset usb", " error", " xhci:port",
             " descriptor read error"}

Texts == {p \o s \o b \o x :
             p \in Prefixes, s \in Subjects, b \in Bodies, x \in Suffixes}

InitClassify ==
    /\ pc = "text"
    /\ log_lines \in {<<m>> : m \in Texts}
    /\ entry = NoEntry
    /\ devices = <<>>
    /\ log_entries = <<>>
    /\ device_logs = <<>>
    /\ analyses = <<>>
    /\ unmatched = <<>>
    /\ analysis = NoAnalysis
    /\ calls = 0
    /\ sources = NoSources
    /\ cli = NoCli

\* entry = LogEntry(message)
NewLogEntry ==
    /\ pc = "text"
    /\ entry' = LogEntry(1, log_lines[1], None, "")
    /\ pc' = "constructed"
    /\ UNCHANGED <<devices, log_lines, log_entries, device_logs, analyses,
                   unmatched, analysis, calls,
                   sources, cli>>

\* entry.extract_device_info()
ExtractDeviceInfo ==
    /\ pc = "constructed"
    /\ entry' = extract_device_info(entry)
    /\ pc' = "extracted"
    /\ UNCHANGED <<devices, log_lines, log_entries, device_logs, analyses,
                   unmatched, analysis, calls,
                   sources, cli>>

NextClassify == NewLogEntry \/ ExtractDeviceInfo

SpecClassify == InitClassify /\ [][NextClassify]_vars

(***************************************************************************)
(* SpecCorrelate: the analyzer's functions on given devices and entries    *)
(***************************************************************************)
\* an entry of the given message with the given identifier fields
EntryWith(message, device_id, vendor_product) ==
    [LogEntry(0, message, None, message)
        EXCEPT !.device_id = device_id, !.vendor_product = vendor_product]

EntryPool ==
    {EntryWith("usb reset",      "1-1.2", None),
     EntryWith("error",          "2-1",   None),
     EntryWith("over-current",   None,    "1234:5678"),
     EntryWith("usb reset",      "1-1.2", "1234:5678"),
     EntryWith("usb disconnect", "9-9",   "1234:5678"),
     EntryWith("timeout",        None,    "9999:0001"),
     EntryWith("new device",     None,    None)}

InitCorrelate ==
    /\ pc = "given"
    /\ devices \in DeviceListsOf(DevicePool, MaxDevices)
    /\ log_entries \in {Numbered(s) : s \in SeqsUpTo(EntryPool, MaxEntries)}
    /\ log_lines = <<>>
    /\ device_logs = <<>>
    /\ analyses = <<>>
    /\ unmatched = <<>>
    /\ entry = NoEntry
    /\ analysis = NoAnalysis
    /\ calls = 0
    /\ sources = NoSources
    /\ cli = NoCli

\* device_logs = match_logs_to_devices(devices, log_entries)
MatchLogsToDevices ==
    /\ pc = "given"
    /\ device_logs' = match_logs_to_devices(devices, log_entries)
    /\ pc' = "entries"
    /\ UNCHANGED <<devices, log_lines, log_entries, analyses, unmatched,
                   entry, analysis, calls,
                   sources, cli>>

NextCorrelate == MatchLogsToDevices \/ AnalyzeDevices \/ GetUnmatchedLogs

SpecCorrelate == InitCorrelate /\ [][NextCorrelate]_vars

(***************************************************************************)
(* SpecAnalysis: one DeviceAnalysis object, filled and then analyzed       *)
(***************************************************************************)
\* one message of each category
CategoryMessages ==
    {"over-current", "usb reset", "usb disconnect", "error", "timeout",
     "descriptor read", "cannot enumerate", "warning", "new device"}

InitAnalysis ==
    /\ pc = "object"
    /\ analysis \in {DeviceAnalysis([d EXCEPT !.oid = 1]) : d \in DevicePool}
    /\ calls = 0
    /\ devices = <<>>
    /\ log_lines = <<>>
    /\ log_entries = <<>>
    /\ device_logs = <<>>
    /\ analyses = <<>>
    /\ unmatched = <<>>
    /\ entry = NoEntry
    /\ sources = NoSources
    /\ cli = NoCli

\* analysis.add_log_entry(entry), before the analysis is analyzed
AddLogEntry ==
    /\ pc = "object"
    /\ calls = 0
    /\ Len(analysis.log_entries) < MaxAdds
    /\ \E m \in CategoryMessages :
          analysis' = add_log_entry(analysis,
                          LogEntry(Len(analysis.log_entries) + 1, m, None, m))
    /\ UNCHANGED <<pc, devices, log_lines, log_entries, device_logs, analyses,
                   unmatched, entry, calls,
                   sources, cli>>

\* analysis.analyze()
Analyze ==
    /\ pc = "object"
    /\ calls < MaxAnalyze
    /\ analysis' = analyze(analysis)
    /\ calls' = calls + 1
    /\ UNCHANGED <<pc, devices, log_lines, log_entries, device_logs, analyses,
                   unmatched, entry,
                   sources, cli>>

NextAnalysis == AddLogEntry \/ Analyze

SpecAnalysis == InitAnalysis /\ [][NextAnalysis]_vars

(***************************************************************************)
(* SpecRules: the per-device body of analyze_devices, a DeviceAnalysis     *)
(* created for one device, filled with the entries matched to it, and      *)
(* analyzed.  analyze reads the counters only, so the matched entries are  *)
(* taken grouped by category: every combination of counter values with at *)
(* most MaxRuleEntries entries occurs.                                     *)
(***************************************************************************)
CategoryOrder ==
    <<"usb reset", "usb disconnect", "error", "warning", "over-current",
      "timeout", "descriptor read", "cannot enumerate", "new device">>

\* index sequences of length <= n that never step down
RECURSIVE GroupedUpTo(_)
GroupedUpTo(n) ==
    IF n = 0 THEN {<<>>}
    ELSE LET shorter == GroupedUpTo(n - 1)
         IN  shorter \cup
             UNION {{Append(q, x) :
                        x \in {y \in 1..Len(CategoryOrder) :
                                  Len(q) = 0 \/ q[Len(q)] <= y}} :
                    q \in {r \in shorter : Len(r) = n - 1}}

GroupedEntries(n) ==
    {[k \in 1..Len(q) |->
         LogEntry(k, CategoryOrder[q[k]], None, CategoryOrder[q[k]])] :
     q \in GroupedUpTo(n)}

\* devices with each device class the driver check tells apart, with and
\* without a bound driver
RuleDevicePool ==
    DevicePool \cup
    {USBDevice(0, "4-1", "0bda", "8153", "00", None),
     USBDevice(0, "5-1", "0bda", "8153", "0",  None),
     USBDevice(0, "6-1", "1d6b", "0002", "ff", "usbfs")}

InitRules ==
    /\ pc = "matched"
    /\ devices \in DeviceListsOf(RuleDevicePool, 1) \ {<<>>}
    /\ log_entries \in GroupedEntries(MaxRuleEntries)
    /\ analysis = NoAnalysis
    /\ calls = 0
    /\ log_lines = <<>>
    /\ device_logs = <<>>
    /\ analyses = <<>>
    /\ unmatched = <<>>
    /\ entry = NoEntry
    /\ sources = NoSources
    /\ cli = NoCli

\* analysis = DeviceAnalysis(device), then add_log_entry for each entry of
\* the device
FillAnalysis ==
    /\ pc = "matched"
    /\ analysis' = AddAll(DeviceAnalysis(devices[1]), log_entries, 1)
    /\ pc' = "object"
    /\ UNCHANGED <<devices, log_lines, log_entries, device_logs, analyses,
                   unmatched, entry, calls,
                   sources, cli>>

NextRules == FillAnalysis \/ Analyze

SpecRules == InitRules /\ [][NextRules]_vars

(***************************************************************************)
(* SpecSources: one parse_kernel_logs call.  What each command and each    *)
(* file gives is the environment's choice, made when the call consults it. *)
(***************************************************************************)
\* since_seconds and lines: 0 stands for None (both are tested by truth)
SinceChoices == {0, 60}
LinesChoices == {0, 1}

JournalTexts == {"", "eth0: up\n", "usb 1-1: j\n"}
DmesgTexts   == {"", "usb 1-1: d\nusb 2-1: e\n"}
FileTexts(k) == {"", "usb " \o ToString(k) \o "-1: f\n"}

RunResults(texts) ==
    {[kind |-> "ok", stdout |-> t] : t \in texts}
    \cup {[kind |-> "nonzero", stdout |-> ""], [kind |-> "raise", stdout |-> ""]}

FileStates(texts) ==
    {[kind |-> "read", content |-> t] : t \in texts}
    \cup {[kind |-> "missing", content |-> ""],
          [kind |-> "unreadable", content |-> ""]}

\* one consultation of a source: whether the source worked (the command
\* ended with returncode 0, the file was read) and what the parse_ function
\* returned
Ran(source, worked, output) ==
    [source |-> source, worked |-> worked, output |-> output]

InitSources ==
    /\ pc = "journalctl"
    /\ sources \in {[since_seconds |-> since, lines |-> n, log_output |-> None,
                      log_file |-> 1, ran |-> <<>>, again |-> <<>>] :
                     since \in SinceChoices, n \in LinesChoices}
    /\ log_entries = <<>>
    /\ devices = <<>>
    /\ log_lines = <<>>
    /\ device_logs = <<>>
    /\ analyses = <<>>
    /\ unmatched = <<>>
    /\ entry = NoEntry
    /\ analysis = NoAnalysis
    /\ calls = 0
    /\ cli = NoCli

\* log_output = parse_journalctl(since_seconds) or parse_journalctl()
ParseJournalctl ==
    /\ pc = "journalctl"
    /\ \E result \in RunResults(JournalTexts) :
          LET out == parse_journalctl(result)
          IN  /\ sources' = [sources EXCEPT
                     !.log_output = out,
                     !.ran = Append(@, Ran("journalctl", result.kind = "ok", out))]
              /\ pc' = IF not_log_output(out) THEN "dmesg" ELSE "collected"
    /\ UNCHANGED <<devices, log_lines, log_entries, device_logs, analyses,
                   unmatched, entry, analysis, calls, cli>>

\* if not log_output: log_output = parse_dmesg(lines)
ParseDmesg ==
    /\ pc = "dmesg"
    /\ \E first \in RunResults(DmesgTexts), second \in RunResults(DmesgTexts) :
          LET out    == parse_dmesg(sources.lines, first, second)
              worked == \/ first.kind = "ok"
                        \/ first.kind = "raise" /\ second.kind = "ok"
          IN  /\ sources' = [sources EXCEPT
                     !.log_output = out,
                     !.ran = Append(@, Ran("dmesg", worked, out))]
              /\ pc' = IF not_log_output(out) THEN "log_file" ELSE "collected"
    /\ UNCHANGED <<devices, log_lines, log_entries, device_logs, analyses,
                   unmatched, entry, analysis, calls, cli>>

\* one turn of the loop over log_files
ParseLogFile ==
    /\ pc = "log_file"
    /\ \E file \in FileStates(FileTexts(sources.log_file)) :
          LET out == parse_log_file(file, sources.lines)
          IN  /\ sources' = [sources EXCEPT
                     !.log_output = out,
                     !.log_file = IF Truthy(out) THEN @ ELSE @ + 1,
                     !.ran = Append(@, Ran(log_files[sources.log_file],
                                           file.kind = "read", out))]
              /\ pc' = IF Truthy(out) \/ sources.log_file = Len(log_files)
                       THEN "collected" ELSE "log_file"
    /\ UNCHANGED <<devices, log_lines, log_entries, device_logs, analyses,
                   unmatched, entry, analysis, calls, cli>>

\* if not log_output: return []
ReturnNoLogs ==
    /\ pc = "collected"
    /\ not_log_output(sources.log_output)
    /\ log_entries' = <<>>
    /\ pc' = "returned"
    /\ UNCHANGED <<devices, log_lines, device_logs, analyses, unmatched,
                   entry, analysis, calls, sources, cli>>

\* the rest of the call: splitlines, the second parse_journalctl call that
\* the since_seconds test makes, filter_usb_entries, and the time filter,
\* which keeps every entry because every timestamp is None
ReturnEntries ==
    /\ pc = "collected"
    /\ ~not_log_output(sources.log_output)
    /\ log_lines' = splitlines(sources.log_output)
    /\ IF sources.since_seconds # 0
       THEN \E result \in RunResults(JournalTexts) :
               sources' = [sources EXCEPT
                   !.again = Append(@, Ran("journalctl", result.kind = "ok",
                                           parse_journalctl(result)))]
       ELSE UNCHANGED sources
    /\ LET entries == filter_usb_entries(log_lines')
       IN  log_entries' =
               IF sources.since_seconds # 0 /\ entries # <<>>
               THEN SelectSeq(entries, LAMBDA e : e.timestamp = None)
               ELSE entries
    /\ pc' = "returned"
    /\ UNCHANGED <<devices, device_logs, analyses, unmatched, entry, analysis,
                   calls, cli>>

NextSources ==
    \/ ParseJournalctl
    \/ ParseDmesg
    \/ ParseLogFile
    \/ ReturnNoLogs
    \/ ReturnEntries

SpecSources == InitSources /\ [][NextSources]_vars

(***************************************************************************)
(* SpecCli: one run of main() after argument parsing.  The devices that    *)
(* enumerate_devices finds, the entries that parse_kernel_logs returns and *)
(* whether formatting or printing raises are the environment's choice.     *)
(***************************************************************************)
\* --device values: absent, bus paths, vendor:product pairs, and values of
\* neither form
DeviceArgs ==
    {None, "1-1.2", "9-9", "1234:5678", "046D:C077", "ffff:0000", "bogus",
     "123:4567"}

InitCli ==
    /\ pc = "main"
    /\ cli \in {[device_arg            |-> arg,
                  json                  |-> json,
                  device_id_filter      |-> None,
                  vendor_product_filter |-> None,
                  enumerated            |-> <<>>,
                  format_raised         |-> FALSE,
                  stdout                |-> None,
                  stderr                |-> None,
                  exit_status           |-> None] :
                 arg \in DeviceArgs, json \in BOOLEAN}
    /\ devices = <<>>
    /\ log_entries = <<>>
    /\ log_lines = <<>>
    /\ device_logs = <<>>
    /\ analyses = <<>>
    /\ unmatched = <<>>
    /\ entry = NoEntry
    /\ analysis = NoAnalysis
    /\ calls = 0
    /\ sources = NoSources

\* device_id_filter, vendor_product_filter = parse_device_filter(args.device)
ParseDeviceFilter ==
    /\ pc = "main"
    /\ LET parsed == parse_device_filter(cli.device_arg)
       IN  cli' = [cli EXCEPT
                      !.device_id_filter = parsed.device_id,
                      !.vendor_product_filter = parsed.vendor_product]
    /\ pc' = "enumerate"
    /\ UNCHANGED <<devices, log_lines, log_entries, device_logs, analyses,
                   unmatched, entry, analysis, calls, sources>>

\* devices = enumerate_devices(), [] when it raises; exit 0 without devices
EnumerateDevices ==
    /\ pc = "enumerate"
    /\ \E found \in DeviceListsOf(DevicePool, MaxDevices) :
          /\ devices' = found
          /\ IF found = <<>>
             THEN /\ cli' = [cli EXCEPT
                        !.stdout = IF cli.json THEN EmptyJsonReport ELSE @,
                        !.stderr = IF cli.json THEN @
                                   ELSE "No USB devices found.",
                        !.exit_status = 0]
                  /\ pc' = "exited"
             ELSE /\ cli' = [cli EXCEPT !.enumerated = found]
                  /\ pc' = "filter"
    /\ UNCHANGED <<log_lines, log_entries, device_logs, analyses, unmatched,
                   entry, analysis, calls, sources>>

\* devices = filter_devices(...) when a filter is set; exit 1 when none is left
FilterDevices ==
    /\ pc = "filter"
    /\ LET filtered ==
               IF \/ Truthy(cli.device_id_filter)
                  \/ Truthy(cli.vendor_product_filter)
               THEN filter_devices(devices, cli.device_id_filter,
                                   cli.vendor_product_filter)
               ELSE devices
       IN  /\ devices' = filtered
           /\ IF filtered = <<>>
              THEN /\ cli' = [cli EXCEPT
                         !.stdout = IF cli.json THEN EmptyJsonReport ELSE @,
                         !.stderr = IF cli.json THEN @
                                    ELSE "No device found matching: "
                                         \o cli.device_arg,
                         !.exit_status = 1]
                   /\ pc' = "exited"
              ELSE /\ UNCHANGED cli
                   /\ pc' = "logs"
    /\ UNCHANGED <<log_lines, log_entries, device_logs, analyses, unmatched,
                   entry, analysis, calls, sources>>

\* log_entries = parse_kernel_logs(...), [] when it raises
ParseKernelLogs ==
    /\ pc = "logs"
    /\ log_entries' \in {Numbered(q) : q \in SeqsUpTo(EntryPool, 1)}
    /\ pc' = "entries"
    /\ UNCHANGED <<devices, log_lines, device_logs, analyses, unmatched,
                   entry, analysis, calls, sources, cli>>

\* format_json or format_text, and print; exit 1 when one of them raises,
\* else main returns and the status is 0
FormatOutput ==
    /\ pc = "done"
    /\ \E raised \in BOOLEAN :
          cli' = [cli EXCEPT
                     !.format_raised = raised,
                     !.stdout = IF raised THEN @
                                ELSE IF cli.json THEN "<format_json output>"
                                ELSE "<format_text output>",
                     !.stderr = IF raised THEN "Error formatting output" ELSE @,
                     !.exit_status = IF raised THEN 1 ELSE 0]
    /\ pc' = "exited"
    /\ UNCHANGED <<devices, log_lines, log_entries, device_logs, analyses,
                   unmatched, entry, analysis, calls, sources>>

NextCli ==
    \/ ParseDeviceFilter
    \/ EnumerateDevices
    \/ FilterDevices
    \/ ParseKernelLogs
    \/ AnalyzeDevices
    \/ GetUnmatchedLogs
    \/ FormatOutput

SpecCli == InitCli /\ [][NextCli]_vars

(***************************************************************************)
(* SpecObjects: the life of the objects the functions share, a LogEntry    *)
(* from its construction on, and devices and entries handed to the         *)
(* analyzer's functions                                                    *)
(***************************************************************************)
InitObjects == InitClassify \/ InitCorrelate

NextObjects == NextClassify \/ NextCorrelate

SpecObjects == InitObjects /\ [][NextObjects]_vars

(***************************************************************************)
(* SpecBusPathAndKey: the run of Spec on lines that name a device by its   *)
(* bus path, with and without a vendor:product pair in the same message    *)
(***************************************************************************)
MaxKeyLines == 2   \* raw log lines of one run of SpecBusPathAndKey

KeyLineVocabulary ==
    {"[2] usb 2-1: 046d:c077 error",
     "[1] usb 2-1: USB disconnect",
     "[3] usb 3-1: abcd:0001 reset"}

\* a device at the bus path of the lines, and two devices with the pair of
\* the first line
KeyDevicePool ==
    {USBDevice(0, "2-1", "1234", "5678", "03", None),
     USBDevice(0, "3-1", "046d", "c077", "03", "usbhid"),
     USBDevice(0, "4-1", "046d", "c077", "09", "hub")}

InitBusPathAndKey ==
    /\ pc = "start"
    /\ devices \in DeviceListsOf(KeyDevicePool, MaxDevices)
    /\ log_lines \in SeqsUpTo(KeyLineVocabulary, MaxKeyLines)
    /\ log_entries = <<>>
    /\ device_logs = <<>>
    /\ analyses = <<>>
    /\ unmatched = <<>>
    /\ entry = NoEntry
    /\ analysis = NoAnalysis
    /\ calls = 0
    /\ sources = NoSources
    /\ cli = NoCli

SpecBusPathAndKey == InitBusPathAndKey /\ [][Next]_vars

(***************************************************************************)
(* Properties                                                              *)
(***************************************************************************)
EndToEndDevices == <<[EndToEndDevice EXCEPT !.oid = 1]>>
EndToEndLines   == <<ResetLine, ResetLine, ResetLine, OverCurrentLine>>

\* C1: with the single device 1-1.2 (1234:5678, no driver, class ff) and the
\* lines "usb 1-1.2: reset" (three times) and "usb 1-1.2: over-current
\* detected", the run yields one analysis with reset_count 3 and
\* over_current_count 1 and exactly the issues multiple resets (3), over-current
\* (1), driver issue, in this order.
C1_EndToEnd ==
    (pc = "done" /\ devices = EndToEndDevices /\ log_lines = EndToEndLines)
    => /\ Len(analyses) = 1
       /\ analyses[1].reset_count = 3
       /\ analyses[1].over_current_count = 1
       /\ Len(analyses[1].issues) = 3
       /\ analyses[1].issues[1] = MultipleResetsIssue(3)
       /\ analyses[1].issues[2] = OverCurrentIssue(1)
       /\ analyses[1].issues[3] \in {UnknownClassIssue, NoDriverIssue("ff")}

\* the raw line holds "reset" and "usb" in any case and no over-current word
ResetUsbLine(raw) ==
    LET l == lower(raw)
    IN  In("reset", l) /\ In("usb", l)
        /\ ~In("over-current", l) /\ ~In("overcurrent", l)

\* C2: the LogEntry that filter_usb_entries produces for a raw line holding
\* both "reset" and "usb" (any case, no over-current word) has category reset,
\* wherever in the raw line the two words stand.
C2_ResetUsbLinesAreReset ==
    \A k \in 1..Len(log_entries) :
        ResetUsbLine(log_entries[k].raw_line) => log_entries[k].category = "reset"

\* the nine rules of the categorisation as a table: rule k holds of the
\* lower-cased text m
CategoryRule(k, m) ==
    CASE k = 1 -> In("over-current", m) \/ In("overcurrent", m)
      [] k = 2 -> In("reset", m) /\ In("usb", m)
      [] k = 3 -> In("disconnect", m) /\ In("usb", m)
      [] k = 4 -> In("error", m) \/ In("failed", m)
      [] k = 5 -> In("timeout", m)
      [] k = 6 -> In("descriptor read", m)
      [] k = 7 -> In("cannot enumerate", m) \/ In("enumeration failed", m)
      [] k = 8 -> In("warning", m) \/ In("warn", m)
      [] OTHER -> TRUE

CategoryOfRule ==
    <<"over_current", "reset", "disconnect", "error", "timeout",
      "descriptor_error", "enumeration_error", "warning", "info">>

\* C3: the category of a LogEntry is that of the first of the nine rules, in
\* their fixed order, that holds of its lower-cased message; so a message with
\* "over-current" and "reset usb" is over_current, never reset.
C3_FirstRuleWins ==
    pc \in {"constructed", "extracted"} =>
        LET m == lower(entry.message)
        IN  \A k \in 1..9 :
                (CategoryRule(k, m) /\ \A j \in 1..(k - 1) : ~CategoryRule(j, m))
                => entry.category = CategoryOfRule[k]

C3_Witness ==
    /\ pc = "constructed"
    /\ In("over-current", lower(entry.message))
    /\ In("reset usb", lower(entry.message))
    /\ entry.category = "over_current"

HexDigits == Digits \cup {"a","b","c","d","e","f","A","B","C","D","E","F"}

\* s holds four hex digits, a colon and four hex digits
HasHexPair(s) ==
    \E i \in 1..(Len(s) - 8) :
        /\ \A k \in (i..(i + 3)) \cup ((i + 5)..(i + 8)) : Char(s, k) \in HexDigits
        /\ Char(s, i + 4) = ":"

\* C4: after extract_device_info, an entry whose text holds a 4-hex:4-hex
\* substring has its vendor_product set and its device_id None, also when a bus
\* path matched in the same message.
C4_VendorProductSupersedes ==
    (pc = "extracted" /\ HasHexPair(entry.message))
    => entry.vendor_product # None /\ entry.device_id = None

C4_Witness ==
    /\ pc = "extracted"
    /\ HasHexPair(entry.message)
    /\ BusPathSearch(entry.message) # None
    /\ entry.vendor_product = "1234:5678"
    /\ entry.device_id = None

\* the positions of the devices whose list in dl holds the entry e
Receivers(dl, e) ==
    {k \in 1..Len(devices) :
        \E n \in 1..Len(GetLogs(dl, devices[k])) :
            SameObject(GetLogs(dl, devices[k])[n], e)}

\* how often the entry e stands in the sequence s
Copies(s, e) == Cardinality({n \in 1..Len(s) : SameObject(s[n], e)})

IdMatches(e, d) == Truthy(e.device_id) /\ d.device_id = e.device_id
VpMatches(e, d) == Truthy(e.vendor_product) /\ HasVp(d, e.vendor_product)

\* C5: an entry whose device_id equals the device_id of an input device is
\* associated with that device, once, and with no other device, whatever its
\* vendor_product matches.
C5_DeviceIdMatchIsExclusive ==
    pc # "given" =>
        \A n \in 1..Len(log_entries), k \in 1..Len(devices) :
            IdMatches(log_entries[n], devices[k])
            => /\ Receivers(device_logs, log_entries[n]) = {k}
               /\ Copies(GetLogs(device_logs, devices[k]), log_entries[n]) = 1

C5_Witness ==
    /\ pc = "entries"
    /\ \E n \in 1..Len(log_entries), k, j \in 1..Len(devices) :
          /\ k # j
          /\ IdMatches(log_entries[n], devices[k])
          /\ VpMatches(log_entries[n], devices[j])
          /\ Receivers(device_logs, log_entries[n]) = {k}

\* C6: an entry with a vendor_product key and no device_id is associated with
\* every input device of that key, once each.
C6_FanOut ==
    pc # "given" =>
        \A n \in 1..Len(log_entries), k \in 1..Len(devices) :
            (~Truthy(log_entries[n].device_id) /\ VpMatches(log_entries[n], devices[k]))
            => Copies(GetLogs(device_logs, devices[k]), log_entries[n]) = 1

C6_Witness ==
    /\ pc = "entries"
    /\ \E n \in 1..Len(log_entries), k, j \in 1..Len(devices) :
          /\ k # j
          /\ ~Truthy(log_entries[n].device_id)
          /\ VpMatches(log_entries[n], devices[k])
          /\ VpMatches(log_entries[n], devices[j])
          /\ Receivers(device_logs, log_entries[n]) = {k, j}

\* C7: a device that is not in the input list but is referenced by a log entry
\* through its vendor:product key has an analysis of its own in the result of
\* analyze_devices, after the analyses of the listed devices.
C7_GhostAnalysis ==
    pc \in {"analyzed", "done"} =>
        \A n \in 1..Len(log_entries) :
            (/\ Truthy(log_entries[n].vendor_product)
             /\ \A k \in 1..Len(devices) : ~VpMatches(log_entries[n], devices[k]))
            => \E a \in (Len(devices) + 1)..Len(analyses) :
                   get_id_vendor_product(analyses[a].device)
                       = log_entries[n].vendor_product

\* the entry stands in the entry list of one of the analyses
Analysed(e) ==
    \E a \in 1..Len(analyses) : Copies(analyses[a].log_entries, e) > 0

InUnmatched(e) == Copies(unmatched, e) > 0

\* C8: an entry is in the result of get_unmatched_logs iff it is in no entry
\* list of the analyses of analyze_devices for the same inputs; the unmatched
\* list keeps the input order and holds each entry at most once.
C8_UnmatchedIffNotAnalysed ==
    pc = "done" =>
        /\ \A n \in 1..Len(log_entries) :
               InUnmatched(log_entries[n]) <=> ~Analysed(log_entries[n])
        /\ unmatched = SelectSeq(log_entries, InUnmatched)

C8_Witness ==
    /\ pc = "done"
    /\ Len(analyses) = 2
    /\ analyses[1].log_entries # <<>>
    /\ analyses[2].log_entries # <<>>
    /\ Len(unmatched) = 2
    /\ unmatched[1].oid = 1

\* C9: analyze_devices returns one analysis for every device of the input
\* list, in input order, also for a device with no entry and no issue; without
\* devices and entries the analyses and the unmatched list are empty.
C9_EveryDeviceAnalysed ==
    /\ pc \in {"analyzed", "done"} =>
           /\ Len(analyses) >= Len(devices)
           /\ \A k \in 1..Len(devices) : analyses[k].device = devices[k]
           /\ \A a \in (Len(devices) + 1)..Len(analyses) :
                  ~InList(devices, analyses[a].device)
    /\ (pc = "done" /\ devices = <<>> /\ log_entries = <<>>) =>
           analyses = <<>> /\ unmatched = <<>>

C9_Witness ==
    /\ pc = "done"
    /\ Len(devices) = 2
    /\ analyses[1].log_entries # <<>>
    /\ analyses[2].log_entries = <<>>
    /\ analyses[2].issues = <<>>

\* C10: a second analyze call on the same analysis, no entry added in between,
\* leaves the issues list as the first call left it. Entries are added before
\* the first call only, so the first call leaves NewIssues(analysis).
C10_AnalyzeTwice == calls >= 1 => analysis.issues = NewIssues(analysis)

\* C11: after any sequence of add_log_entry calls each of the eight counters
\* equals the number of entries of its category in log_entries, log_entries
\* holds the entries in the order in which they were added (the k-th added
\* entry, of identity k, is at position k), an info entry changes no counter,
\* and no call decreases a counter.
CountOf(s, c) == Cardinality({n \in 1..Len(s) : s[n].category = c})

Counters(a) ==
    <<a.reset_count, a.disconnect_count, a.error_count, a.warning_count,
      a.over_current_count, a.timeout_count, a.descriptor_error_count,
      a.enumeration_error_count>>

CounterCategories ==
    <<"reset", "disconnect", "error", "warning", "over_current", "timeout",
      "descriptor_error", "enumeration_error">>

CountersMatch ==
    pc = "object" =>
        /\ \A k \in 1..8 :
               Counters(analysis)[k]
                   = CountOf(analysis.log_entries, CounterCategories[k])
        /\ \A n \in 1..Len(analysis.log_entries) :
               analysis.log_entries[n].oid = n

CountersGrow ==
    pc = "object" =>
        /\ \A k \in 1..8 : Counters(analysis')[k] >= Counters(analysis)[k]
        /\ SubSeq(analysis'.log_entries, 1, Len(analysis.log_entries))
               = analysis.log_entries
        /\ (/\ Len(analysis'.log_entries) = Len(analysis.log_entries) + 1
            /\ analysis'.log_entries[Len(analysis'.log_entries)].category
                   = "info")
               => Counters(analysis') = Counters(analysis)

C11_CountersCountCategories == []CountersMatch /\ [][CountersGrow]_vars

C11_Witness ==
    /\ pc = "object"
    /\ Len(analysis.log_entries) = 3
    /\ analysis.log_entries[2].category = "info"
    /\ analysis.warning_count = 1
    /\ analysis.enumeration_error_count = 1

\* C12: with T = reset_count + disconnect_count, the first analyze call on a
\* filled analysis emits exactly one "Frequent resets/reconnects" issue and no
\* "Multiple resets/reconnects" issue when T >= 5, exactly one "Multiple" and
\* no "Frequent" issue when T is 3 or 4, and neither when T <= 2; the issue
\* that is emitted names T.
StartsWith(s, p) == Len(s) >= Len(p) /\ SubSeq(s, 1, Len(p)) = p

IssuesWith(a, p) == SelectSeq(a.issues, LAMBDA s : StartsWith(s, p))

FrequentPrefix == "Frequent resets/reconnects ("
MultiplePrefix == "Multiple resets/reconnects ("

FirstAnalyzeDone == pc = "object" /\ calls = 1

C12_ResetTiersExclusive ==
    FirstAnalyzeDone =>
        LET T == analysis.reset_count + analysis.disconnect_count
        IN  /\ T >= 5 =>
                   /\ IssuesWith(analysis, FrequentPrefix) = <<FrequentIssue(T)>>
                   /\ IssuesWith(analysis, MultiplePrefix) = <<>>
            /\ T \in 3..4 =>
                   /\ IssuesWith(analysis, MultiplePrefix)
                          = <<MultipleResetsIssue(T)>>
                   /\ IssuesWith(analysis, FrequentPrefix) = <<>>
            /\ T <= 2 =>
                   /\ IssuesWith(analysis, FrequentPrefix) = <<>>
                   /\ IssuesWith(analysis, MultiplePrefix) = <<>>

C12_Witness ==
    /\ FirstAnalyzeDone
    /\ analysis.reset_count = 2
    /\ analysis.disconnect_count = 3
    /\ analysis.issues[1] = FrequentIssue(5)

\* C13: the first analyze call on a freshly filled analysis emits its issues
\* in the order resets, over-current, descriptor errors, enumeration
\* failures, timeouts, driver, general errors, each kind at most once; the
\* over-current, descriptor, enumeration and timeout issues appear exactly
\* when their counter is above 0 and the general-errors issue exactly when
\* error_count >= 3, each naming its counter's value; the list is empty when
\* no condition holds.
IssueKinds ==
    <<{FrequentPrefix, MultiplePrefix},
      {"Over-current detected ("},
      {"Device descriptor read errors ("},
      {"Enumeration failed ("},
      {"USB timeouts ("},
      {"Unknown device class", "No driver bound"},
      {"Multiple errors detected ("}>>

KindOf(s) ==
    CHOOSE k \in 1..Len(IssueKinds) : \E p \in IssueKinds[k] : StartsWith(s, p)

OfKind(a, k) ==
    SelectSeq(a.issues, LAMBDA s : \E p \in IssueKinds[k] : StartsWith(s, p))

DriverConditionHolds(a) ==
    a.device.driver = None /\ a.device.device_class \notin {None, ""}

C13_IssueOrderAndConditions ==
    FirstAnalyzeDone =>
        LET a == analysis
        IN  /\ \A i, j \in 1..Len(a.issues) :
                   i < j => KindOf(a.issues[i]) < KindOf(a.issues[j])
            /\ OfKind(a, 2) = IF a.over_current_count > 0
                              THEN <<OverCurrentIssue(a.over_current_count)>>
                              ELSE <<>>
            /\ OfKind(a, 3) = IF a.descriptor_error_count > 0
                              THEN <<DescriptorIssue(a.descriptor_error_count)>>
                              ELSE <<>>
            /\ OfKind(a, 4) = IF a.enumeration_error_count > 0
                              THEN <<EnumerationIssue(a.enumeration_error_count)>>
                              ELSE <<>>
            /\ OfKind(a, 5) = IF a.timeout_count > 0
                              THEN <<TimeoutIssue(a.timeout_count)>>
                              ELSE <<>>
            /\ OfKind(a, 7) = IF a.error_count >= 3
                              THEN <<MultipleErrorsIssue(a.error_count)>>
                              ELSE <<>>
            /\ (/\ a.reset_count + a.disconnect_count < 3
                /\ a.over_current_count = 0
                /\ a.descriptor_error_count = 0
                /\ a.enumeration_error_count = 0
                /\ a.timeout_count = 0
                /\ ~DriverConditionHolds(a)
                /\ a.error_count < 3) => a.issues = <<>>

C13_Witness ==
    /\ FirstAnalyzeDone
    /\ analysis.issues
          = <<OverCurrentIssue(1), TimeoutIssue(1),
              NoDriverIssue("03"), MultipleErrorsIssue(3)>>

\* C14: the first analyze call emits a driver issue exactly when the device
\* has no bound driver and has a device class: the "Unknown device class"
\* issue when the class is "00", "0" or "ff", otherwise the "No driver bound"
\* issue naming the class, never both; with a bound driver or without a
\* class it emits neither.
C14_DriverRule ==
    FirstAnalyzeDone =>
        LET a       == analysis
            unknown == IssuesWith(a, "Unknown device class")
            unbound == IssuesWith(a, "No driver bound")
        IN  IF DriverConditionHolds(a)
            THEN IF a.device.device_class \in {"00", "0", "ff"}
                 THEN unknown = <<UnknownClassIssue>> /\ unbound = <<>>
                 ELSE /\ unbound = <<NoDriverIssue(a.device.device_class)>>
                      /\ unknown = <<>>
            ELSE unknown = <<>> /\ unbound = <<>>

C14_Witness ==
    /\ FirstAnalyzeDone
    /\ analysis.device.device_class = "00"
    /\ analysis.device.driver = None
    /\ analysis.issues = <<MultipleResetsIssue(3), UnknownClassIssue>>

\* C16: for every device the entries associated with it by
\* match_logs_to_devices, and the log_entries of its analysis, are a
\* subsequence of the input entry list: they are entries of the input, in the
\* input's relative order, whether matched by device_id or by vendor:product.
\* The k-th input entry has identity k.
SubsequenceOfInput(s) ==
    /\ \A i \in 1..Len(s) :
           s[i].oid \in 1..Len(log_entries) /\ s[i] = log_entries[s[i].oid]
    /\ \A i, j \in 1..Len(s) : i < j => s[i].oid < s[j].oid

C16_OrderPreserved ==
    /\ pc \in {"entries", "analyzed", "done"} =>
           \A k \in 1..Len(device_logs) :
               SubsequenceOfInput(device_logs[k].entries)
    /\ pc \in {"analyzed", "done"} =>
           \A k \in 1..Len(analyses) :
               /\ SubsequenceOfInput(analyses[k].log_entries)
               /\ analyses[k].log_entries
                      = GetLogs(device_logs, analyses[k].device)

C16_Witness ==
    /\ pc = "analyzed"
    /\ \E k \in 1..Len(analyses) :
          LET s == analyses[k].log_entries
          IN  /\ Len(s) = 2
              /\ s[1].oid = 1 /\ s[2].oid = 3
              /\ IdMatches(s[2], analyses[k].device)
              /\ s[1].device_id = None
              /\ VpMatches(s[1], analyses[k].device)

\* C17, as stated: parse_kernel_logs consults journalctl, dmesg,
\* /var/log/kern.log, /var/log/messages and /var/log/syslog in that order and
\* returns the entries of the first source that succeeds (the command ended
\* with returncode 0, the file was read): no source is consulted after one
\* that succeeded, and the result is empty when every source failed.
SourceOrder == <<"journalctl", "dmesg">> \o log_files

InSourcesCall == pc \in {"journalctl", "dmesg", "log_file", "collected", "returned"}

EntriesOf(text) == filter_usb_entries(splitlines(text))

C17_FirstWorkingSourceWins ==
    InSourcesCall =>
        LET ran == sources.ran
        IN  /\ \A k \in 1..Len(ran) : ran[k].source = SourceOrder[k]
            /\ \A k \in 1..(Len(ran) - 1) : ~ran[k].worked
            /\ pc = "returned" =>
                   IF ran[Len(ran)].worked
                   THEN log_entries = EntriesOf(ran[Len(ran)].output)
                   ELSE Len(ran) = Len(SourceOrder) /\ log_entries = <<>>

\* C17, amended: parse_kernel_logs consults the five sources in that order
\* and returns the entries of the first source that gives a non-empty text; a
\* source that succeeds with an empty text counts as failed.  No source is
\* consulted after one that gave a non-empty text, except that journalctl is
\* run once more, its output unused, when since_seconds is given; the result
\* is empty when no source gave a non-empty text.
C17_FirstNonEmptySourceWins ==
    InSourcesCall =>
        LET ran == sources.ran
        IN  /\ \A k \in 1..Len(ran) : ran[k].source = SourceOrder[k]
            /\ \A k \in 1..(Len(ran) - 1) : ran[k].output \in {None, ""}
            /\ pc \in {"collected", "returned"} =>
                   \/ ran[Len(ran)].output \notin {None, ""}
                   \/ Len(ran) = Len(SourceOrder)
            /\ pc = "returned" =>
                   /\ log_entries = IF ran[Len(ran)].output \in {None, ""}
                                    THEN <<>>
                                    ELSE EntriesOf(ran[Len(ran)].output)
                   /\ Len(sources.again) =
                          IF /\ sources.since_seconds # 0
                             /\ ran[Len(ran)].output \notin {None, ""}
                          THEN 1 ELSE 0
            /\ pc # "returned" => sources.again = <<>>

C17_Witness ==
    /\ pc = "returned"
    /\ Len(sources.ran) = 4
    /\ sources.ran[3].worked
    /\ sources.ran[3].output = ""
    /\ sources.ran[4].source = "/var/log/messages"
    /\ Len(log_entries) = 1
    /\ log_entries[1].raw_line = "usb 2-1: f"

\* C18: main exits with status 1 exactly when an explicit device filter
\* matches no enumerated device or when formatting the output fails; it exits
\* with status 0 and an empty report when no device was found at all, also
\* when a filter was given, and with status 0 in every other run.  A filter
\* matches a device when it is the device's device_id or, letter case aside,
\* its vendor:product id.
FilterMatches(arg, d) ==
    \/ d.device_id = arg
    \/ /\ get_id_vendor_product(d) # None
       /\ lower(get_id_vendor_product(d)) = lower(arg)

FilterMatchesNone ==
    /\ cli.device_arg # None
    /\ cli.enumerated # <<>>
    /\ \A k \in 1..Len(cli.enumerated) :
           ~FilterMatches(cli.device_arg, cli.enumerated[k])

EmptyReport ==
    IF cli.json THEN cli.stdout = EmptyJsonReport ELSE cli.stdout = None

C18_ExitStatus ==
    pc = "exited" =>
        /\ cli.exit_status = IF FilterMatchesNone \/ cli.format_raised
                             THEN 1 ELSE 0
        /\ cli.enumerated = <<>> => cli.exit_status = 0 /\ EmptyReport

\* C19: classification never fails: for every text, constructing a LogEntry
\* and calling extract_device_info both complete, with one of the nine
\* categories and the text kept as the message; a text that matches no
\* category rule and neither identifier pattern yields category info with
\* device_id and vendor_product both None.
C19_ClassificationTotal ==
    /\ pc = "text" =>
           LET e == extract_device_info(LogEntry(1, log_lines[1], None, ""))
           IN  /\ e.message = log_lines[1]
               /\ \E k \in 1..9 : e.category = CategoryOfRule[k]
               /\ e.device_id = None \/ e.vendor_product = None
    /\ pc = "constructed" =>
           entry.device_id = None /\ entry.vendor_product = None
    /\ pc \in {"constructed", "extracted"} =>
           /\ entry.message = log_lines[1]
           /\ \E k \in 1..9 : entry.category = CategoryOfRule[k]
    /\ (/\ pc = "extracted"
        /\ \A k \in 1..8 : ~CategoryRule(k, lower(entry.message))
        /\ BusPathSearch(entry.message) = None
        /\ VendorProductSearch(entry.message) = None)
           => /\ entry.category = "info"
              /\ entry.device_id = None
              /\ entry.vendor_product = None

C19_Witness ==
    /\ pc = "extracted"
    /\ entry.message = "kernel: link up"
    /\ entry.category = "info"
    /\ entry.device_id = None
    /\ entry.vendor_product = None

\* C20: match_logs_to_devices, analyze_devices, get_unmatched_logs,
\* add_log_entry and analyze leave the input lists as they were and leave
\* every field of every input device and entry unchanged: each device and
\* entry held by a result is the input object of the same identity with the
\* input's field values; and the category of a LogEntry, like its message,
\* does not change after construction, extract_device_info included.
SameAsInputEntry(e) ==
    e.oid \in 1..Len(log_entries) /\ e = log_entries[e.oid]

SameAsInputDevice(d) ==
    d.oid \in 1..Len(devices) /\ d = devices[d.oid]

InputsUntouched ==
    pc \in {"entries", "analyzed", "done"} =>
        /\ \A k \in 1..Len(device_logs) :
               /\ SameAsInputDevice(device_logs[k].device)
               /\ \A n \in 1..Len(device_logs[k].entries) :
                      SameAsInputEntry(device_logs[k].entries[n])
        /\ \A k \in 1..Len(analyses) :
               /\ SameAsInputDevice(analyses[k].device)
               /\ \A n \in 1..Len(analyses[k].log_entries) :
                      SameAsInputEntry(analyses[k].log_entries[n])
        /\ \A n \in 1..Len(unmatched) : SameAsInputEntry(unmatched[n])

InputsKept ==
    /\ pc \in {"given", "entries", "analyzed"} =>
           devices' = devices /\ log_entries' = log_entries
    /\ pc = "constructed" =>
           /\ entry'.category = entry.category
           /\ entry'.message = entry.message
           /\ entry'.timestamp = entry.timestamp
           /\ entry'.raw_line = entry.raw_line

C20_InputsNotMutated == []InputsUntouched /\ [][InputsKept]_vars

C20_Witness ==
    /\ pc = "done"
    /\ Len(devices) = 2
    /\ Len(analyses[2].log_entries) = 2
    /\ analyses[2].log_entries[1].device_id # analyses[2].device.device_id
    /\ Len(unmatched) = 1

\* C21: every LogEntry that filter_usb_entries produces carries at most one
\* identifier: device_id and vendor_product are never both set, and device_id
\* is set only when the message holds a bus-path pattern and no pattern of
\* four word characters, a colon and four word characters.
HasWordPair(s) ==
    \E i \in 1..(Len(s) - 8) :
        /\ \A k \in (i..(i + 3)) \cup ((i + 5)..(i + 8)) : IsWord(Char(s, k))
        /\ Char(s, i + 4) = ":"

C21_AtMostOneIdentifier ==
    pc = "entries" =>
        \A n \in 1..Len(log_entries) :
            LET e == log_entries[n]
            IN  /\ ~(e.device_id # None /\ e.vendor_product # None)
                /\ e.device_id # None =>
                       /\ BusPathSearch(e.message) = e.device_id
                       /\ ~HasWordPair(e.message)

C21_Witness ==
    /\ pc = "entries"
    /\ Len(log_entries) = 2
    /\ log_entries[1].device_id = "1-1.2"
    /\ log_entries[1].vendor_product = None
    /\ log_entries[2].device_id = None
    /\ log_entries[2].vendor_product = "046d:c077"
    /\ BusPathSearch(log_entries[2].message) = "2-1"

\* C22, as stated: every message containing "enumeration failed" is
\* categorised error or an earlier category, never enumeration_error; every
\* message containing both "descriptor read" and "error" is categorised
\* error; enumeration_error is reached only through "cannot enumerate" in a
\* message with no "error", "failed", "timeout" or "descriptor read" and with
\* no earlier rule holding.
BeforeError == {"over_current", "reset", "disconnect"}

EnumerationOnlyByCannotEnumerate(m, category) ==
    category = "enumeration_error" =>
        /\ In("cannot enumerate", m)
        /\ ~In("error", m) /\ ~In("failed", m)
        /\ ~In("timeout", m) /\ ~In("descriptor read", m)
        /\ \A k \in 1..3 : ~CategoryRule(k, m)

C22_ErrorShadowsExactly ==
    pc \in {"constructed", "extracted"} =>
        LET m == lower(entry.message)
        IN  /\ In("enumeration failed", m) =>
                   entry.category \in BeforeError \cup {"error"}
            /\ (In("descriptor read", m) /\ In("error", m)) =>
                   entry.category = "error"
            /\ EnumerationOnlyByCannotEnumerate(m, entry.category)

\* C22, amended: a message containing both "descriptor read" and "error" is
\* categorised error or an earlier category (over_current, reset,
\* disconnect), never descriptor_error; the rest as stated.
C22_ErrorShadowsLaterRules ==
    pc \in {"constructed", "extracted"} =>
        LET m == lower(entry.message)
        IN  /\ In("enumeration failed", m) =>
                   entry.category \in BeforeError \cup {"error"}
            /\ (In("descriptor read", m) /\ In("error", m)) =>
                   entry.category \in BeforeError \cup {"error"}
            /\ EnumerationOnlyByCannotEnumerate(m, entry.category)

C22_Witness ==
    /\ pc = "constructed"
    /\ entry.message = "usb 1-1.2: reset descriptor read error"
    /\ entry.category = "reset"

\* C23: an entry whose message holds the bus path of an enumerated device D
\* and also a pattern of four word characters, a colon and four word
\* characters is not associated with D through its bus path: when the pair
\* is the vendor:product id of no enumerated device the entry is in no
\* analysis and is in the unmatched list; when the pair is the id of
\* enumerated devices the entry is in the analyses of exactly those devices.
FirstWordPair(s) ==
    LET at == {i \in 1..(Len(s) - 8) :
                 /\ \A k \in (i..(i + 3)) \cup ((i + 5)..(i + 8)) :
                        IsWord(Char(s, k))
                 /\ Char(s, i + 4) = ":"}
    IN  SubSeq(s, Min(at), Min(at) + 8)

NamesBusPathOf(e, d) == In("usb " \o d.device_id \o ":", e.message)

C23_BusPathDiscarded ==
    pc = "done" =>
        \A n \in 1..Len(log_entries), k \in 1..Len(devices) :
            LET e     == log_entries[n]
                keyed == {j \in 1..Len(devices) :
                             get_id_vendor_product(devices[j])
                                 = FirstWordPair(e.message)}
            IN  (NamesBusPathOf(e, devices[k]) /\ HasWordPair(e.message)) =>
                    /\ \A j \in 1..Len(devices) :
                           Copies(analyses[j].log_entries, e)
                               = IF j \in keyed THEN 1 ELSE 0
                    /\ InUnmatched(e) <=> keyed = {}
                    /\ keyed = {} => ~Analysed(e)

C23_Witness ==
    /\ pc = "done"
    /\ Len(devices) = 2
    /\ devices[1].device_id = "2-1"
    /\ devices[2].device_id = "3-1"
    /\ Len(log_entries) = 2
    /\ log_entries[1].message = "usb 2-1: 046d:c077 error"
    /\ log_entries[2].message = "usb 3-1: abcd:0001 reset"
    /\ analyses[1].log_entries = <<>>
    /\ Copies(analyses[2].log_entries, log_entries[1]) = 1
    /\ unmatched = <<log_entries[2]>>

====
